---- MODULE Spec2Model ----
(***************************************************************************)
(* Model of optimize_gcode (scripts/complete_gcode_optimizer.py): the      *)
(* single forward scan over the lines of a G-code file that inserts wash   *)
(* and color pickup templates at layer transitions and once the distance   *)
(* drawn since the last pickup exceeds distance_threshold.                 *)
(*                                                                         *)
(* A line of text is a record of its parts:                                *)
(*   cmd   leading command word: "G0", "G1", "M8" or "" (comment line)     *)
(*   x, y  the numbers after X and Y (NoVal when the field is absent,      *)
(*         Malformed when the token is not a number: "1.2.3", "-")         *)
(*   z     the number after Z (NoVal when absent)                          *)
(*   zf    TRUE when F follows the Z number directly ("Z0F1200"),          *)
(*         FALSE when a blank separates them ("Z5 F500") or F is absent    *)
(*   note  the comment that ends the line: "" (none), "Layer" (";Layer     *)
(*         <arg>"), "Path" ("; Path <arg>"), "G0 Z5" (";G0 Z5", a comment  *)
(*         that quotes a lift), "G0 X" ("; G0 X-10 Y-10 F1200; Homing", a  *)
(*         comment that quotes a travel move), "G10" ("; G10 P0 L20 X0     *)
(*         Y0; set to zero") or "text" (any other comment)                 *)
(*   arg   the layer name or path number of a Layer/Path note              *)
(*   form  how the line is written where the reformatting looks at it:     *)
(*         "decimals" (Z with four decimals, "Z3.0000"), "depth"           *)
(*         ("Z-0.1000 F500"), "feed" (the line ends with " F1200"),        *)
(*         "minus" (a negative Z of a template line, "Z-1 F800") or ""     *)
(* The regular expressions of the source are operators over these parts.   *)
(*                                                                         *)
(* Two more programs of the repository are modelled, each under its own    *)
(* specification: process_gcode of scripts/raster_s_to_z.py (RasterSpec)   *)
(* and the temporary directories of the endpoints of webapi/main.py        *)
(* (WebSpec). The variables of the programs a specification does not run   *)
(* keep their initial values.                                              *)
(***************************************************************************)
EXTENDS Integers, Sequences, FiniteSets, TLC

VARIABLES lines, distance_threshold, force_multiplier, aggressive,
          pc, line_index, processed_count, found_m8,
          total_length, accumulated_length, current_segment_length,
          current_x, current_y, prev_x, prev_y, is_drawing,
          layer_lengths, path_lengths, current_path,
          current_layer, previous_layer,
          current_color_sequence, current_color_name,
          previous_color_name, last_color_name,
          pickup_segments, color_pickup_count,
          output_lines, output_file, result,
          run,
          \* process_gcode (raster_s_to_z.py)
          raster_lines, z_up, z_down, keep_s, scan_feed,
          in_scan_section, is_raised, out, raster_index, raster_pc,
          \* the endpoints of webapi/main.py
          requests, tmp_dirs, background_tasks

optimizer_vars == <<lines, distance_threshold, force_multiplier, aggressive,
          pc, line_index, processed_count, found_m8,
          total_length, accumulated_length, current_segment_length,
          current_x, current_y, prev_x, prev_y, is_drawing,
          layer_lengths, path_lengths, current_path,
          current_layer, previous_layer,
          current_color_sequence, current_color_name,
          previous_color_name, last_color_name,
          pickup_segments, color_pickup_count,
          output_lines, output_file, result,
          run>>
raster_vars == <<raster_lines, z_up, z_down, keep_s, scan_feed,
                 in_scan_section, is_raised, out, raster_index, raster_pc>>
web_vars == <<requests, tmp_dirs, background_tasks>>
vars == <<optimizer_vars, raster_vars, web_vars>>

----------------------------------------------------------------------------
(* Bounds of the model *)

\* longest input of the exhaustive families
MaxLen == 3
\* most filler lines between a motion line and a following lift
MaxPad == 10
\* most filler lines between a section marker and the layer marker
MaxGap == 7

----------------------------------------------------------------------------
(* Values *)

\* Python's None
PyNone == "PyNone"
\* a local variable that has not been assigned yet
Unbound == "Unbound"
\* an absent numeric field of a line
NoVal == -1
\* a token of digits, dots and minus signs that is not a number
Malformed == -2

\* the lines of the model's inputs
M8Line == [cmd |-> "M8", x |-> NoVal, y |-> NoVal, z |-> NoVal, zf |-> FALSE, note |-> "", arg |-> "", form |-> ""]
LayerLine(n) == [cmd |-> "", x |-> NoVal, y |-> NoVal, z |-> NoVal, zf |-> FALSE, note |-> "Layer", arg |-> n, form |-> ""]
PathLine(n) == [cmd |-> "", x |-> NoVal, y |-> NoVal, z |-> NoVal, zf |-> FALSE, note |-> "Path", arg |-> n, form |-> ""]
CommentLine == [cmd |-> "", x |-> NoVal, y |-> NoVal, z |-> NoVal, zf |-> FALSE, note |-> "text", arg |-> "", form |-> ""]
\* "G1 X<x>Y<y>Z0F1200": a draw move at contact height
DrawLine(px, py) == [cmd |-> "G1", x |-> px, y |-> py, z |-> 0, zf |-> TRUE, note |-> "", arg |-> "", form |-> ""]
\* "G1 X<x>Y<y>Z0F1200 ;G0 Z5": a draw move whose comment quotes a lift
NotedDrawLine(px, py) == [cmd |-> "G1", x |-> px, y |-> py, z |-> 0, zf |-> TRUE, note |-> "G0 Z5", arg |-> "", form |-> ""]
\* "G0 X<x>Y<y>Z5F1200": a rapid move with the tool raised
TravelLine(px, py) == [cmd |-> "G0", x |-> px, y |-> py, z |-> 5, zf |-> TRUE, note |-> "", arg |-> "", form |-> ""]
\* "G1 X1.2.3Y4Z0F1200": a draw move whose X token has two decimal points
MalformedXLine == [cmd |-> "G1", x |-> Malformed, y |-> 4, z |-> 0, zf |-> TRUE, note |-> "", arg |-> "", form |-> ""]
\* "G1 X3Y-Z0F1200": a draw move whose Y token is a lone minus sign
MalformedYLine == [cmd |-> "G1", x |-> 3, y |-> Malformed, z |-> 0, zf |-> TRUE, note |-> "", arg |-> "", form |-> ""]
\* "G1 Z3.0000 F500", "G1 Z0.0000 F500", "G1 Z-0.1000 F500": Z moves as the
\* drawing program writes them (z keeps the leading digit)
RaiseLine == [cmd |-> "G1", x |-> NoVal, y |-> NoVal, z |-> 3, zf |-> FALSE, note |-> "", arg |-> "", form |-> "decimals"]
SurfaceLine == [cmd |-> "G1", x |-> NoVal, y |-> NoVal, z |-> 0, zf |-> FALSE, note |-> "", arg |-> "", form |-> "decimals"]
DepthLine == [cmd |-> "G1", x |-> NoVal, y |-> NoVal, z |-> 0, zf |-> FALSE, note |-> "", arg |-> "", form |-> "depth"]
\* "G1 X<x> Y<y> F1200": a move without Z, blank-separated
StartMoveLine(px, py) == [cmd |-> "G1", x |-> px, y |-> py, z |-> NoVal, zf |-> FALSE, note |-> "", arg |-> "", form |-> "feed"]
\* "G0 Z5 F500": a lift without X/Y
LiftLine == [cmd |-> "G0", x |-> NoVal, y |-> NoVal, z |-> 5, zf |-> FALSE, note |-> "", arg |-> "", form |-> ""]

LAYER_COLOR_MAP ==
  [n \in {"Green", "Blue", "Red", "C03", "C00", "Wash", "default"} |->
     CASE n = "Green" -> [sequence |-> "COLOR1_SEQUENCE", name |-> "Color 1"]
       [] n = "Blue"  -> [sequence |-> "COLOR2_SEQUENCE", name |-> "Color 2"]
       [] n = "Red"   -> [sequence |-> "COLOR3_SEQUENCE", name |-> "Color 3"]
       [] n = "C03"   -> [sequence |-> "COLOR3_SEQUENCE", name |-> "Color 3"]
       [] n = "C00"   -> [sequence |-> "COLOR1_SEQUENCE", name |-> "Color 1"]
       [] n = "Wash"  -> [sequence |-> "WASHING_SEQUENCE", name |-> "Washing"]
       [] OTHER       -> [sequence |-> "WASHING_SEQUENCE", name |-> "Washing"]]

\* dict.get(k, default) and d[k] = v of a Python dict
DictGet(d, k, default) == IF k \in DOMAIN d THEN d[k] ELSE default
DictPut(d, k, v) == [q \in (DOMAIN d) \cup {k} |-> IF q = k THEN v ELSE d[q]]

\* variant: the segment replaces the length booked so far
AddLength_Overwrite(d, k, segment_length) == DictPut(d, k, segment_length)

\* d[k] = d.get(k, 0) + segment_length (lines 442 and 445)
AddLength(d, k, segment_length) == DictPut(d, k, DictGet(d, k, 0) + segment_length)

\* what the caller gets: nothing yet, a returned (total, layers) pair or an
\* exception
Running == [kind |-> "none", total |-> 0, layers |-> <<>>, exc |-> ""]
Returned(total, layers) == [kind |-> "return", total |-> total, layers |-> layers, exc |-> ""]
Raised(e) == [kind |-> "raise", total |-> 0, layers |-> <<>>, exc |-> e]

\* lines 399-409: the fixed replacement of a line in the output ("same" when
\* the line is passed through as it is)
Format(l) ==
  CASE l.cmd = "G1" /\ l.x = NoVal /\ l.form = "decimals" /\ l.z = 3 -> "G1 Z3 F1000"
    [] l.cmd = "G1" /\ l.x = NoVal /\ l.form = "decimals" /\ l.z = 0 -> "G1 Z0 F1000"
    [] l.cmd = "G1" /\ l.x = NoVal /\ l.form = "depth" -> "G1 Z-0.1 F1000"
    [] l.cmd = "G1" /\ l.x # NoVal /\ l.y # NoVal /\ l.form = "feed" -> "G0 X Y F1200"
    [] OTHER -> "same"

\* items of output_lines: a template block, an input line, the return block
Block(t) == [kind |-> "block", text |-> t, idx |-> NoVal, x |-> NoVal, y |-> NoVal]
OutLine(i) == [kind |-> "line", text |-> Format(lines[i + 1]), idx |-> i, x |-> NoVal, y |-> NoVal]
return_sequence(rx, ry) == [kind |-> "return", text |-> "", idx |-> NoVal, x |-> rx, y |-> ry]

\* the lines of the templates: blanks separate the words of a template
\* line, so F never follows the Z number directly
BlankLine == [cmd |-> "", x |-> NoVal, y |-> NoVal, z |-> NoVal, zf |-> FALSE, note |-> "", arg |-> "", form |-> ""]
QuotedLine(q) == [cmd |-> "", x |-> NoVal, y |-> NoVal, z |-> NoVal, zf |-> FALSE, note |-> q, arg |-> "", form |-> ""]
TemplateLine(c, px, py, pz) == [cmd |-> c, x |-> px, y |-> py, z |-> pz, zf |-> FALSE, note |-> "text", arg |-> "", form |-> ""]
\* "G1 Z-1 F800; ..." and the reformatted "G1 Z-0.1 F1000; ..."
DipLine == [cmd |-> "G1", x |-> NoVal, y |-> NoVal, z |-> 0, zf |-> FALSE, note |-> "text", arg |-> "", form |-> "minus"]
EndLine == [cmd |-> "M2", x |-> NoVal, y |-> NoVal, z |-> NoVal, zf |-> FALSE, note |-> "text", arg |-> "", form |-> ""]

HOMING_SEQUENCE ==
  <<BlankLine,
    TemplateLine("G0", NoVal, NoVal, 10),
    QuotedLine("G0 X"),
    QuotedLine("G0 X"),
    QuotedLine("G10"),
    TemplateLine("G1", NoVal, NoVal, NoVal)>>

COLOR3_SEQUENCE ==
  <<BlankLine,
    CommentLine,
    TemplateLine("G1", NoVal, NoVal, 10),
    TemplateLine("G0", 124, 12, NoVal),
    TemplateLine("G1", NoVal, NoVal, 0),
    TemplateLine("G1", NoVal, NoVal, 7),
    TemplateLine("G1", 119, 12, 1),
    TemplateLine("G1", 114, 15, 8),
    TemplateLine("G1", NoVal, NoVal, NoVal)>>

WASHING_SEQUENCE ==
  <<BlankLine,
    CommentLine,
    TemplateLine("G1", NoVal, NoVal, 10),
    TemplateLine("G0", 5, 5, NoVal),
    DipLine,
    TemplateLine("G1", 10, 12, 8),
    DipLine,
    TemplateLine("G1", 25, 14, 6),
    TemplateLine("G1", NoVal, NoVal, 8),
    TemplateLine("G0", 5, 5, NoVal),
    DipLine,
    TemplateLine("G1", 15, 12, 8),
    DipLine,
    TemplateLine("G1", 25, 14, 6),
    TemplateLine("G1", NoVal, NoVal, 10),
    TemplateLine("G1", NoVal, NoVal, NoVal)>>

ENDING_SEQUENCE ==
  <<BlankLine,
    CommentLine,
    TemplateLine("G1", NoVal, NoVal, 10),
    TemplateLine("G0", 5, 5, NoVal),
    DipLine,
    TemplateLine("G1", 10, 12, 8),
    DipLine,
    TemplateLine("G1", 25, 14, 6),
    TemplateLine("G0", 5, 5, NoVal),
    DipLine,
    TemplateLine("G1", 15, 12, 8),
    DipLine,
    TemplateLine("G1", 25, 14, 6),
    TemplateLine("G1", NoVal, NoVal, 10),
    TemplateLine("G0", 20, 110, 10),
    EndLine>>

\* the templates whose lines the model spells out (the lines of the color 1
\* and color 2 templates are not)
SpelledOut == {"HOMING_SEQUENCE", "COLOR3_SEQUENCE", "WASHING_SEQUENCE", "ENDING_SEQUENCE"}
TemplateLines(t) ==
  CASE t = "HOMING_SEQUENCE" -> HOMING_SEQUENCE
    [] t = "COLOR3_SEQUENCE" -> COLOR3_SEQUENCE
    [] t = "WASHING_SEQUENCE" -> WASHING_SEQUENCE
    [] t = "ENDING_SEQUENCE" -> ENDING_SEQUENCE

\* the four lines of the return block for position (rx, ry)
ReturnLines(rx, ry) ==
  <<BlankLine,
    CommentLine,
    TemplateLine("G0", rx, ry, NoVal),
    TemplateLine("G1", NoVal, NoVal, 0)>>

\* the text the reformatting puts in the place of line l
Reformatted(l) ==
  CASE Format(l) = "G1 Z3 F1000" -> TemplateLine("G1", NoVal, NoVal, 3)
    [] Format(l) = "G1 Z0 F1000" -> TemplateLine("G1", NoVal, NoVal, 0)
    [] Format(l) = "G1 Z-0.1 F1000" -> DipLine
    [] Format(l) = "G0 X Y F1200" -> TemplateLine("G0", l.x, l.y, NoVal)
    [] OTHER -> l

\* the lines of the written file, as the next run reads them (lines 595-596
\* and 251-254): the items joined and split into lines again
ItemLines(it) ==
  CASE it.kind = "block" -> TemplateLines(it.text)
    [] it.kind = "return" -> ReturnLines(it.x, it.y)
    [] it.kind = "line" -> <<Reformatted(lines[it.idx + 1])>>
RECURSIVE FileLines(_)
FileLines(content) ==
  IF content = <<>> THEN <<>> ELSE ItemLines(Head(content)) \o FileLines(Tail(content))

----------------------------------------------------------------------------
(* Regular expressions and lookaheads *)

\* the line at 0-based index i
LineAt(i) == lines[i + 1]

m8_regex(l) == l.cmd = "M8"
layer_regex(l) == IF l.note = "Layer" THEN l.arg ELSE PyNone
path_regex(l) == IF l.note = "Path" THEN l.arg ELSE PyNone
plunge_regex(l) == l.z = 0 /\ l.zf
retract_regex(l) == l.z \in 2..9 /\ l.zf
coord_regex(l) == l.cmd \in {"G0", "G1"} /\ l.x # NoVal /\ l.y # NoVal /\ l.z # NoVal /\ l.zf
\* float(tok) raises ValueError
float_raises(tok) == tok = Malformed
\* "G1" in line
HasG1(l) == l.cmd = "G1" \/ l.note = "G10"
\* G[01]
IsMotion(l) == l.cmd \in {"G0", "G1"} \/ l.note \in {"G0 Z5", "G0 X", "G10"}
\* G0\s*Z[1-9]|G0.*Z[1-9]
IsZLift(l) == (l.cmd = "G0" /\ l.z >= 1) \/ l.note = "G0 Z5"
\* G1\s*X|G1\s*Y
IsG1XY(l) == l.cmd = "G1" /\ (l.x # NoVal \/ l.y # NoVal)
\* G0\s*
IsG0(l) == l.cmd = "G0" \/ l.note \in {"G0 Z5", "G0 X"}

Min(a, b) == IF a < b THEN a ELSE b

\* the offset of the first lift at start_index .. start_index+max_lookahead-1
\* (NoVal for Python's None)
next_z_lift_in_range(start_index, max_lookahead) ==
  LET end_index == Min(start_index + max_lookahead, Len(lines))
      hits == {i \in start_index..(end_index - 1) : IsZLift(LineAt(i))}
  IN IF hits = {} THEN NoVal
     ELSE (CHOOSE i \in hits : \A j \in hits : i <= j) - start_index

look_ahead_limit == 6

\* the first layer name in the look_ahead_limit lines from index start
LookAheadLayer(start) ==
  LET hits == {i \in start..(start + look_ahead_limit - 1) :
                 i < Len(lines) /\ layer_regex(LineAt(i)) # PyNone}
  IN IF hits = {} THEN PyNone
     ELSE layer_regex(LineAt(CHOOSE i \in hits : \A j \in hits : i <= j))

\* math.sqrt on the perfect squares the model's coordinates produce
Sqrt(n) == CHOOSE r \in 0..n : r * r = n
SegmentLength(x1, y1, x2, y2) == Sqrt((x2 - x1) * (x2 - x1) + (y2 - y1) * (y2 - y1))

----------------------------------------------------------------------------
(* Transition-safety classification, lines 450-516 *)

\* the lookahead of the forced pickup and the distance that defers it
z_lift_lookahead == 20
z_lift_soon == 10
\* the emergency multiple of distance_threshold
emergency_multiple == 3

\* variant: the pickup check does not compare with distance_threshold
OverThreshold_AnyDistance(acc) == acc > 0

\* the check that opens the pickup logic, line 451
OverThreshold(acc) == acc > distance_threshold

\* variant: the end-of-stroke test starts at the third line
GoodTransition_SkipsSecondLine(idx) ==
  /\ idx > 1
  /\ idx + 1 < Len(lines)
  /\ IsG1XY(LineAt(idx - 1))
  /\ IsG0(LineAt(idx + 1))

\* G1 drawing followed by G0 positioning around line idx
GoodTransition(idx) ==
  /\ idx > 0
  /\ idx + 1 < Len(lines)
  /\ IsG1XY(LineAt(idx - 1))
  /\ IsG0(LineAt(idx + 1))

\* variant: aggressive mode leaves the pickup to the force_multiplier check
NaturalTransition_WaitsForForce(idx) ==
  IF aggressive
  THEN FALSE
  ELSE IsZLift(LineAt(idx)) \/ GoodTransition(idx)

\* is_clean_transition after the aggressive / normal mode branch
NaturalTransition(idx) ==
  IF aggressive
  THEN IsMotion(LineAt(idx))
  ELSE IsZLift(LineAt(idx)) \/ GoodTransition(idx)

\* a lift is coming soon: the forced pickup is postponed
ZLiftSoon(idx) ==
  LET z_lift_distance == next_z_lift_in_range(idx, z_lift_lookahead)
  IN z_lift_distance # NoVal /\ z_lift_distance < z_lift_soon

\* variant: the forced pickup does not wait for force_multiplier
ForcedTransition_AtThreshold(idx, acc) ==
  LET force_pickup == acc >= distance_threshold
  IN IF ~aggressive
     THEN force_pickup /\ ~ZLiftSoon(idx) /\ IsMotion(LineAt(idx))
     ELSE force_pickup /\ IsMotion(LineAt(idx))

\* force pickup logic with lookahead (normal mode) and the aggressive force
ForcedTransition(idx, acc) ==
  LET force_pickup == acc >= force_multiplier * distance_threshold
  IN IF ~aggressive
     THEN force_pickup /\ ~ZLiftSoon(idx) /\ IsMotion(LineAt(idx))
     ELSE force_pickup /\ IsMotion(LineAt(idx))

\* variant: the emergency pickup needs more than the emergency multiple
EmergencyTransition_Strict(acc) == acc > emergency_multiple * distance_threshold

\* emergency pickup logic, both modes
EmergencyTransition(acc) == acc >= emergency_multiple * distance_threshold

\* the value of is_clean_transition at line 518
is_clean_transition(idx, acc) ==
  \/ NaturalTransition(idx)
  \/ (~NaturalTransition(idx) /\ ForcedTransition(idx, acc))
  \/ EmergencyTransition(acc)

\* variant: the return block does not look for a G0 on the next line
interrupted_active_stroke_AnyNext(idx, drawing) ==
  LET next_line_is_g1 == (idx + 1 < Len(lines)) /\ IsG1XY(LineAt(idx + 1))
      current_has_z_lift == IsZLift(LineAt(idx))
  IN drawing /\ next_line_is_g1 /\ ~current_has_z_lift

\* the stroke was interrupted: the return block is needed
interrupted_active_stroke(idx, drawing) ==
  LET next_line_is_g1 == (idx + 1 < Len(lines)) /\ IsG1XY(LineAt(idx + 1))
      next_line_is_g0 == (idx + 1 < Len(lines)) /\ IsG0(LineAt(idx + 1))
      current_has_z_lift == IsZLift(LineAt(idx))
  IN drawing /\ next_line_is_g1 /\ ~current_has_z_lift /\ ~next_line_is_g0

\* variant: a line with a fixed replacement is left out of the output
PassThrough_DropsReformatted(items, i) ==
  IF Format(LineAt(i)) = "same" THEN Append(items, OutLine(i)) ELSE items

\* output_lines.append of the current line (as it is or reformatted)
PassThrough(items, i) == Append(items, OutLine(i))

\* variant: every announced layer counts as a change of layer
LayerChanged_Always(next_layer) == TRUE

\* line 330: the layer found after the section marker is not the previous one
LayerChanged(next_layer) == next_layer # previous_layer

\* variant: the section marker moves the cursor to the layer marker it found
SectionCursor_FollowsLookAhead(idx) ==
  LET hits == {i \in (idx + 1)..(idx + look_ahead_limit) :
                 i < Len(lines) /\ layer_regex(LineAt(i)) # PyNone}
  IN IF hits = {} THEN idx + 1 ELSE CHOOSE i \in hits : \A j \in hits : i <= j

\* line 310: the cursor after a section marker; the lookahead runs on its
\* own index (look_ahead_index)
SectionCursor(idx) == idx + 1

\* variant: a path marker keeps the length of a path that was used before
PathReset_KeepsUsed(pl, p) == DictPut(pl, p, DictGet(pl, p, 0))

\* line 417: path_lengths[current_path] = 0
PathReset(pl, p) == DictPut(pl, p, 0)

\* variant: the loop stops one line early
ScanFinished_Early == line_index + 1 >= Len(lines)

\* line 303: the while loop is over
ScanFinished == line_index >= Len(lines)

\* the color profile of a layer, the default one when unmapped
ResolveColor(layer) ==
  IF layer \in DOMAIN LAYER_COLOR_MAP
  THEN LAYER_COLOR_MAP[layer]
  ELSE LAYER_COLOR_MAP["default"]

\* the section-marker path takes the layer found by the lookahead
SectionLayerFound(next_layer) == next_layer \in DOMAIN LAYER_COLOR_MAP

\* variant: the washing counter is not incremented
CountUp_ColorsOnly(cnt, name) == IF name = "Washing" THEN cnt ELSE [cnt EXCEPT ![name] = @ + 1]

\* color_pickup_count[name] += 1
CountUp(cnt, name) == [cnt EXCEPT ![name] = @ + 1]

\* the wash decision of a layer transition
TransitionWash(prev_color, new_color) == prev_color # "None" /\ prev_color # new_color

\* variant: the pickup washes whenever a color was used before
PickupWash_AfterAnyColor(last_color, new_color) == last_color # PyNone

\* the wash decision of a distance-triggered pickup
PickupWash(last_color, new_color) == last_color # PyNone /\ last_color # new_color

----------------------------------------------------------------------------
(* Inputs *)

\* all sequences over S of length at most n
SeqsUpTo(S, n) == UNION {[1..k -> S] : k \in 0..n}
\* k filler lines
Filler(k) == [i \in 1..k |-> CommentLine]

\* distance_threshold, force_multiplier, aggressive
Thresholds == {0, 2, 4}
ForceMultipliers == {1, 2, 4}

\* strokes over the corners of a 3 x 4 rectangle, lifts and travel moves
MotionLines == {DrawLine(3, 0), DrawLine(3, 4), DrawLine(0, 0), NotedDrawLine(3, 4),
                TravelLine(3, 0), LiftLine, CommentLine}
MotionInputs == SeqsUpTo(MotionLines, MaxLen)

\* section markers, layer markers (mapped and unmapped) and strokes
LayerLines == {M8Line, LayerLine("Green"), LayerLine("C00"), LayerLine("Blue"),
               LayerLine("Zinc"), DrawLine(3, 0), DrawLine(3, 4)}
LayerInputs == SeqsUpTo(LayerLines, MaxLen)

\* one to three strokes, then up to MaxPad filler lines, then a lift
Strokes == {<<>>, <<DrawLine(3, 0), DrawLine(3, 4)>>,
            <<DrawLine(3, 0), DrawLine(3, 4), DrawLine(3, 0)>>}
PaddedInputs ==
  {head \o Filler(k) \o <<LiftLine>> \o tail :
     head \in Strokes \ {<<>>}, k \in 0..MaxPad, tail \in {<<>>, <<DrawLine(3, 0)>>}}

\* a section marker, then up to MaxGap filler lines, then a layer marker
GappedInputs ==
  {head \o <<M8Line>> \o Filler(k) \o <<LayerLine(n), DrawLine(3, 0), DrawLine(3, 4)>> :
     k \in 0..MaxGap, n \in {"Green", "Blue", "Zinc"},
     head \in {<<>>, <<M8Line, LayerLine("Green")>>}}

\* a first layer with strokes, then a second layer marker (behind a section
\* marker or bare) with strokes
StoryLayers == {"Green", "C00", "Blue", "Zinc"}
Markers == {<<M8Line, LayerLine(b)>> : b \in StoryLayers} \cup {<<LayerLine(b)>> : b \in StoryLayers}
LayeredInputs ==
  {<<M8Line, LayerLine(a)>> \o s1 \o m \o s2 :
     a \in StoryLayers, s1 \in Strokes, m \in Markers, s2 \in Strokes}

\* a motion line with a malformed X or Y token, after and before good lines
MalformedInputs ==
  {head \o <<bad>> \o tail :
     head \in {<<>>, <<DrawLine(3, 0)>>, <<M8Line, LayerLine("Green"), DrawLine(3, 0)>>},
     bad \in {MalformedXLine, MalformedYLine},
     tail \in {<<>>, <<DrawLine(3, 4)>>}}

\* one straight stroke from (0,4) to (3,4) and the lift that ends it, drawn
\* by a single G1 after the travel move or by a plunge line and a G1
LayerStrokes == {<<TravelLine(0, 4), DrawLine(3, 4), LiftLine>>,
                 <<TravelLine(0, 4), DrawLine(0, 4), DrawLine(3, 4), LiftLine>>}
\* layer Green with one stroke, then layer Blue with one stroke; one unit is
\* 50 mm, so each stroke is 150 mm and distance_threshold = 2 is 100 mm
TwoLayerInputs ==
  {<<M8Line, LayerLine("Green")>> \o s1 \o <<M8Line, LayerLine("Blue")>> \o s2 :
     s1 \in LayerStrokes, s2 \in LayerStrokes}
\* layer Green with one stroke, then an empty layer Blue
OneStrokeInputs ==
  {<<M8Line, LayerLine("Green")>> \o s1 \o <<M8Line, LayerLine("Blue")>> : s1 \in LayerStrokes}

\* one straight stroke from (1,0) to (7,0) with no lift, in one, two or three
\* G1 moves; one unit is 10 mm, so the stroke is 60 mm
ShortStrokeInputs ==
  {<<TravelLine(1, 0), DrawLine(7, 0)>>,
   <<TravelLine(1, 0), DrawLine(1, 0), DrawLine(7, 0)>>,
   <<TravelLine(1, 0), DrawLine(4, 0), DrawLine(7, 0)>>,
   <<TravelLine(1, 0), DrawLine(1, 0), DrawLine(3, 0), DrawLine(5, 0), DrawLine(7, 0)>>}

\* strokes before any path marker, a path, then (in the same or in a new
\* layer) the same or another path
PathInputs ==
  {s0 \o <<PathLine("1")>> \o s1 \o mark \o <<PathLine(b)>> \o s2 :
     s0 \in {<<>>, <<DrawLine(3, 0), DrawLine(3, 4)>>},
     s1 \in Strokes \ {<<>>},
     mark \in {<<>>, <<M8Line, LayerLine("Blue")>>},
     b \in {"1", "2"},
     s2 \in {<<>>, <<DrawLine(3, 0), DrawLine(3, 4)>>}}

\* Z moves and start moves in the drawing program's notation around a stroke
FormatInputs ==
  {<<RaiseLine, StartMoveLine(3, 0), SurfaceLine, DepthLine>> \o s \o <<RaiseLine>> : s \in Strokes}

\* a stroke with a comment line or a Z-only line between two of its moves
InterruptedInputs ==
  {<<DrawLine(3, 0), DrawLine(3, 4)>> \o mid \o <<DrawLine(3, 0)>> :
     mid \in {<<>>, <<CommentLine>>, <<SurfaceLine>>, <<CommentLine, SurfaceLine>>}}

\* inputs whose output is optimized again: strokes in no layer or in layer
\* Red, then nothing, a bare layer marker or a second section
ReoptInputs ==
  {head \o s1 \o m \o s2 :
     head \in {<<>>, <<M8Line, LayerLine("Red")>>},
     s1 \in Strokes,
     m \in {<<>>, <<LayerLine("Blue")>>, <<M8Line, LayerLine("C03")>>},
     s2 \in {<<>>, <<DrawLine(3, 0)>>}}

Inputs == MotionInputs \cup LayerInputs \cup PaddedInputs \cup GappedInputs \cup LayeredInputs
            \cup MalformedInputs \cup TwoLayerInputs \cup OneStrokeInputs
            \cup PathInputs \cup FormatInputs \cup InterruptedInputs
            \cup ReoptInputs

----------------------------------------------------------------------------
(* The scan *)

\* the call of optimize_gcode: the text of the input file and the arguments;
\* the locals hold the values lines 261-301 give them.  The short stroke is
\* run with distance_threshold = 5 (50 mm) and force_multiplier = 2
\* process_gcode is not called
RasterUnused ==
  /\ raster_lines = <<>>
  /\ z_up = 0
  /\ z_down = 0
  /\ keep_s = TRUE
  /\ scan_feed = NoVal
  /\ in_scan_section = FALSE
  /\ is_raised = FALSE
  /\ out = <<>>
  /\ raster_index = 0
  /\ raster_pc = "unused"

\* the web service gets no request
WebUnused ==
  /\ requests = <<>>
  /\ tmp_dirs = {}
  /\ background_tasks = {}

\* optimize_gcode is not called
OptimizerUnused ==
  /\ lines = <<>>
  /\ distance_threshold = 0
  /\ force_multiplier = 0
  /\ aggressive = FALSE
  /\ pc = "unused"
  /\ line_index = 0
  /\ processed_count = 0
  /\ found_m8 = FALSE
  /\ total_length = 0
  /\ accumulated_length = 0
  /\ current_segment_length = 0
  /\ current_x = 0
  /\ current_y = 0
  /\ prev_x = 0
  /\ prev_y = 0
  /\ is_drawing = FALSE
  /\ layer_lengths = <<>>
  /\ path_lengths = <<>>
  /\ current_path = "None"
  /\ current_layer = "default"
  /\ previous_layer = PyNone
  /\ current_color_sequence = "WASHING_SEQUENCE"
  /\ current_color_name = "Washing"
  /\ previous_color_name = Unbound
  /\ last_color_name = PyNone
  /\ pickup_segments = <<>>
  /\ color_pickup_count = <<>>
  /\ output_lines = <<>>
  /\ output_file = [written |-> FALSE, content |-> <<>>]
  /\ result = Running
  /\ run = 0

Init ==
  /\ \/ /\ lines \in Inputs
        /\ distance_threshold \in Thresholds
        /\ force_multiplier \in ForceMultipliers
     \/ /\ lines \in ShortStrokeInputs
        /\ distance_threshold = 5
        /\ force_multiplier = 2
  /\ aggressive \in BOOLEAN
  /\ pc = "read"
  /\ line_index = 0
  /\ processed_count = 0
  /\ found_m8 = FALSE
  /\ total_length = 0
  /\ accumulated_length = 0
  /\ current_segment_length = 0
  /\ current_x = 0
  /\ current_y = 0
  /\ prev_x = 0
  /\ prev_y = 0
  /\ is_drawing = FALSE
  /\ layer_lengths = <<>>
  /\ path_lengths = <<>>
  /\ current_path = "None"
  /\ current_layer = "default"
  /\ previous_layer = PyNone
  /\ current_color_sequence = "WASHING_SEQUENCE"
  /\ current_color_name = "Washing"
  /\ previous_color_name = Unbound
  /\ last_color_name = PyNone
  /\ pickup_segments = <<>>
  /\ color_pickup_count = [c \in {"Color 1", "Color 2", "Color 3", "Washing"} |-> 0]
  /\ output_lines = <<>>
  /\ output_file = [written |-> FALSE, content |-> <<>>]
  /\ result = Running
  /\ run = 1
  /\ RasterUnused
  /\ WebUnused

\* lines 249-254 and 292-301: the file is read, the output starts with the
\* homing sequence
ReadInput ==
  /\ pc = "read"
  /\ pc' = "scan"
  /\ output_lines' = <<Block("HOMING_SEQUENCE")>>
  /\ UNCHANGED <<raster_vars, web_vars, run, lines, distance_threshold, force_multiplier, aggressive,
                 line_index, processed_count, found_m8,
                 total_length, accumulated_length, current_segment_length,
                 current_x, current_y, prev_x, prev_y, is_drawing,
                 layer_lengths, path_lengths, current_path,
                 current_layer, previous_layer,
                 current_color_sequence, current_color_name,
                 previous_color_name, last_color_name,
                 pickup_segments, color_pickup_count, output_file, result>>

\* lines 257-259: open or read raised; the message is printed and the
\* function returns 0, {}
ReadError ==
  /\ pc = "read"
  /\ pc' = "failed"
  /\ result' = Returned(0, <<>>)
  /\ UNCHANGED <<raster_vars, web_vars, run, lines, distance_threshold, force_multiplier, aggressive,
                 line_index, processed_count, found_m8,
                 total_length, accumulated_length, current_segment_length,
                 current_x, current_y, prev_x, prev_y, is_drawing,
                 layer_lengths, path_lengths, current_path,
                 current_layer, previous_layer,
                 current_color_sequence, current_color_name,
                 previous_color_name, last_color_name,
                 pickup_segments, color_pickup_count, output_lines, output_file>>

\* lines 306-356: a line with M8, the lookahead for the layer label and the
\* layer transition made at the section marker
SectionMarker ==
  /\ pc = "scan"
  /\ line_index < Len(lines)
  /\ m8_regex(LineAt(line_index))
  /\ LET next_layer == LookAheadLayer(line_index + 1)
         found == SectionLayerFound(next_layer)
         change == found /\ LayerChanged(next_layer)
         color == LAYER_COLOR_MAP[next_layer]
         prev_color == IF current_color_name # "" THEN current_color_name ELSE "None"
         wash == change /\ TransitionWash(prev_color, color.name)
     IN /\ found_m8' = TRUE
        /\ line_index' = SectionCursor(line_index)
        /\ current_layer' = IF found THEN next_layer ELSE current_layer
        /\ layer_lengths' = IF change
                            THEN DictPut(layer_lengths, next_layer, DictGet(layer_lengths, next_layer, 0))
                            ELSE layer_lengths
        /\ accumulated_length' = IF change THEN 0 ELSE accumulated_length
        /\ current_segment_length' = IF change THEN 0 ELSE current_segment_length
        /\ previous_color_name' = IF change THEN prev_color ELSE previous_color_name
        /\ current_color_sequence' = IF change THEN color.sequence ELSE current_color_sequence
        /\ current_color_name' = IF change THEN color.name ELSE current_color_name
        /\ output_lines' = PassThrough(output_lines, line_index)
                             \o (IF wash THEN <<Block("WASHING_SEQUENCE")>> ELSE <<>>)
                             \o (IF change THEN <<Block(color.sequence)>> ELSE <<>>)
        /\ color_pickup_count' =
             IF change
             THEN CountUp(IF wash THEN CountUp(color_pickup_count, "Washing") ELSE color_pickup_count,
                          color.name)
             ELSE color_pickup_count
        /\ previous_layer' = IF change THEN next_layer ELSE previous_layer
        /\ last_color_name' = IF change THEN color.name ELSE last_color_name
  /\ UNCHANGED <<raster_vars, web_vars, run, lines, distance_threshold, force_multiplier, aggressive, pc,
                 processed_count, total_length, current_x, current_y, prev_x, prev_y,
                 is_drawing, path_lengths, current_path, pickup_segments, output_file,
                 result>>

\* lines 358-572: any other line.  The bare layer marker, the reset at a
\* layer label, the pass-through of the line, path and drawing state, the
\* distance counters and the distance-triggered pickup
ScanLine ==
  /\ pc = "scan"
  /\ line_index < Len(lines)
  /\ ~m8_regex(LineAt(line_index))
  /\ LET line == LineAt(line_index)
         \* 358-386: layer change not handled by M8
         layer_match == layer_regex(line)
         bare == layer_match # PyNone /\ ~found_m8
         layer1 == IF bare THEN layer_match ELSE current_layer
         first == bare /\ layer1 # previous_layer /\ previous_layer = PyNone
         color1 == ResolveColor(layer1)
         cname1 == IF first THEN color1.name ELSE current_color_name
         cseq1 == IF first THEN color1.sequence ELSE current_color_sequence
         ll1 == IF first
                THEN DictPut(layer_lengths, layer1, DictGet(layer_lengths, layer1, 0))
                ELSE layer_lengths
         acc1 == IF first THEN 0 ELSE accumulated_length
         \* line 377 reads previous_color_name, bound only by the M8 branch
         raises == first /\ previous_color_name = Unbound
     IN IF raises
        THEN /\ pc' = "error"
             /\ result' = Raised("UnboundLocalError")
             /\ current_layer' = layer1
             /\ layer_lengths' = ll1
             /\ accumulated_length' = acc1
             /\ current_color_sequence' = cseq1
             /\ current_color_name' = cname1
             /\ UNCHANGED <<raster_vars, web_vars, run, lines, distance_threshold, force_multiplier, aggressive,
                            line_index, processed_count, found_m8, total_length,
                            current_segment_length, current_x, current_y, prev_x, prev_y,
                            is_drawing, path_lengths, current_path, previous_layer,
                            previous_color_name, last_color_name, pickup_segments,
                            color_pickup_count, output_lines, output_file>>
        ELSE
          LET wash1 == first /\ TransitionWash(previous_color_name, cname1)
              out1 == IF first
                      THEN output_lines
                             \o (IF wash1 THEN <<Block("WASHING_SEQUENCE")>> ELSE <<>>)
                             \o <<Block(cseq1)>>
                      ELSE output_lines
              cnt1 == IF first
                      THEN CountUp(IF wash1 THEN CountUp(color_pickup_count, "Washing")
                                   ELSE color_pickup_count, cname1)
                      ELSE color_pickup_count
              prevlayer1 == IF first THEN layer1 ELSE previous_layer
              last1 == IF first THEN cname1 ELSE last_color_name
              \* 388-395: reset at a layer label
              reset2 == layer_match # PyNone /\ layer1 # prevlayer1
              acc2 == IF reset2 THEN 0 ELSE acc1
              seg2 == IF reset2 THEN 0 ELSE current_segment_length
              \* 397-409: the line goes to the output
              out3 == PassThrough(out1, line_index)
              \* 411-417: path change
              path_match == path_regex(line)
              path4 == IF path_match # PyNone THEN path_match ELSE current_path
              pl4 == IF path_match # PyNone THEN PathReset(path_lengths, path_match)
                     ELSE path_lengths
              \* 419-425: retract, then plunge
              drawing5 == IF plunge_regex(line) THEN TRUE
                          ELSE IF retract_regex(line) THEN FALSE ELSE is_drawing
              \* 427-448: coordinates and distance
              coord_match == coord_regex(line)
              px == IF coord_match THEN current_x ELSE prev_x
              py == IF coord_match THEN current_y ELSE prev_y
              cx == IF coord_match THEN line.x ELSE current_x
              cy == IF coord_match THEN line.y ELSE current_y
              counted == coord_match /\ (px # 0 \/ py # 0) /\ drawing5 /\ HasG1(line)
              segment_length == IF counted THEN SegmentLength(px, py, cx, cy) ELSE 0
              acc6 == acc2 + segment_length
              ll6 == IF counted
                     THEN AddLength(ll1, layer1, segment_length)
                     ELSE ll1
              pl6 == IF counted
                     THEN AddLength(pl4, path4, segment_length)
                     ELSE pl4
              seg6 == seg2 + segment_length
              \* 450-569: the pickup
              insert == counted /\ OverThreshold(acc6)
                          /\ is_clean_transition(line_index, acc6)
              color7 == ResolveColor(layer1)
              wash7 == insert /\ PickupWash(last1, color7.name)
              recover == insert /\ interrupted_active_stroke(line_index, drawing5)
              \* 431-432: float() of the X token, then of the Y token
              x_raises == coord_match /\ float_raises(line.x)
              y_raises == coord_match /\ float_raises(line.y)
          IN IF x_raises \/ y_raises
             THEN
             /\ pc' = "error"
             /\ result' = Raised("ValueError")
             /\ current_layer' = layer1
             /\ previous_layer' = prevlayer1
             /\ found_m8' = IF layer_match # PyNone THEN FALSE ELSE found_m8
             /\ current_path' = path4
             /\ path_lengths' = pl4
             /\ layer_lengths' = ll1
             /\ is_drawing' = drawing5
             /\ prev_x' = px
             /\ prev_y' = py
             /\ current_x' = IF x_raises THEN current_x ELSE line.x
             /\ accumulated_length' = acc2
             /\ current_segment_length' = seg2
             /\ current_color_name' = cname1
             /\ current_color_sequence' = cseq1
             /\ last_color_name' = last1
             /\ color_pickup_count' = cnt1
             /\ output_lines' = out3
             /\ UNCHANGED <<raster_vars, web_vars, run, lines, distance_threshold, force_multiplier, aggressive,
                            line_index, processed_count, total_length, current_y,
                            previous_color_name, pickup_segments, output_file>>
             ELSE
             /\ pc' = pc
             /\ current_layer' = layer1
             /\ previous_layer' = prevlayer1
             /\ found_m8' = IF layer_match # PyNone THEN FALSE ELSE found_m8
             /\ current_path' = path4
             /\ path_lengths' = pl6
             /\ layer_lengths' = ll6
             /\ is_drawing' = drawing5
             /\ prev_x' = px
             /\ prev_y' = py
             /\ current_x' = cx
             /\ current_y' = cy
             /\ total_length' = total_length + segment_length
             /\ accumulated_length' = IF insert THEN 0 ELSE acc6
             /\ current_segment_length' = IF insert THEN 0 ELSE seg6
             /\ current_color_name' = IF insert THEN color7.name ELSE cname1
             /\ current_color_sequence' = IF insert THEN color7.sequence ELSE cseq1
             /\ last_color_name' = IF insert THEN color7.name ELSE last1
             /\ color_pickup_count' =
                  IF insert
                  THEN CountUp(IF wash7 THEN CountUp(cnt1, "Washing") ELSE cnt1, color7.name)
                  ELSE cnt1
             /\ pickup_segments' =
                  IF insert
                  THEN Append(pickup_segments,
                              [layer |-> layer1, color |-> color7.name, length |-> acc6])
                  ELSE pickup_segments
             /\ output_lines' =
                  IF insert
                  THEN out3 \o (IF wash7 THEN <<Block("WASHING_SEQUENCE")>> ELSE <<>>)
                            \o <<Block(color7.sequence)>>
                            \o (IF recover THEN <<return_sequence(cx, cy)>> ELSE <<>>)
                  ELSE out3
             /\ line_index' = line_index + 1
             /\ processed_count' = processed_count + 1
             /\ UNCHANGED <<raster_vars, web_vars, run, lines, distance_threshold, force_multiplier, aggressive,
                            previous_color_name, output_file, result>>

\* lines 582-617: the closing sequence, the single write of the output and
\* the return of total_length, layer_lengths
Finish ==
  /\ pc = "scan"
  /\ ScanFinished
  /\ pc' = "done"
  /\ output_lines' = Append(output_lines, Block("ENDING_SEQUENCE"))
  /\ output_file' = [written |-> TRUE, content |-> output_lines']
  /\ result' = Returned(total_length, layer_lengths)
  /\ UNCHANGED <<raster_vars, web_vars, run, lines, distance_threshold, force_multiplier, aggressive,
                 line_index, processed_count, found_m8,
                 total_length, accumulated_length, current_segment_length,
                 current_x, current_y, prev_x, prev_y, is_drawing,
                 layer_lengths, path_lengths, current_path,
                 current_layer, previous_layer,
                 current_color_sequence, current_color_name,
                 previous_color_name, last_color_name,
                 pickup_segments, color_pickup_count>>

\* optimize_gcode is called on the file the finished run has written, with
\* the same settings: every local starts again (lines 261-301)
Reoptimize ==
  /\ pc = "done"
  /\ run = 1
  /\ lines \in ReoptInputs
  /\ \A k \in 1..Len(output_file.content) :
       output_file.content[k].kind = "block" => output_file.content[k].text \in SpelledOut
  /\ run' = 2
  /\ lines' = FileLines(output_file.content)
  /\ pc' = "read"
  /\ line_index' = 0
  /\ processed_count' = 0
  /\ found_m8' = FALSE
  /\ total_length' = 0
  /\ accumulated_length' = 0
  /\ current_segment_length' = 0
  /\ current_x' = 0
  /\ current_y' = 0
  /\ prev_x' = 0
  /\ prev_y' = 0
  /\ is_drawing' = FALSE
  /\ layer_lengths' = <<>>
  /\ path_lengths' = <<>>
  /\ current_path' = "None"
  /\ current_layer' = "default"
  /\ previous_layer' = PyNone
  /\ current_color_sequence' = "WASHING_SEQUENCE"
  /\ current_color_name' = "Washing"
  /\ previous_color_name' = Unbound
  /\ last_color_name' = PyNone
  /\ pickup_segments' = <<>>
  /\ color_pickup_count' = [c \in {"Color 1", "Color 2", "Color 3", "Washing"} |-> 0]
  /\ output_lines' = <<>>
  /\ output_file' = [written |-> FALSE, content |-> <<>>]
  /\ result' = Running
  /\ UNCHANGED <<raster_vars, web_vars, distance_threshold, force_multiplier, aggressive>>

Next == ReadInput \/ ReadError \/ SectionMarker \/ ScanLine \/ Finish \/ Reoptimize

Spec == Init /\ [][Next]_vars

----------------------------------------------------------------------------
(* process_gcode of scripts/raster_s_to_z.py                               *)
(*                                                                         *)
(* A line of a raster file is a record of its parts:                       *)
(*   comment  "" for a line of code; for a line that starts with ";" the   *)
(*            section it names: "Scan", "Cut" (Offset or Cut), "ScanCut"   *)
(*            (both words) or "text" (neither)                             *)
(*   s        the number after S in the code (NoVal when there is none)    *)
(*   f        the number after F (NoVal when there is none)                *)
(* An item of out is a line of the input (idx, with the S and F words it   *)
(* keeps) or an inserted Z move (z, with feed f).                          *)

\* longest raster input
RasterLen == 3

RasterCode(ps) == [comment |-> "", s |-> ps, f |-> 1200]
RasterComment(c) == [comment |-> c, s |-> NoVal, f |-> NoVal]
RasterLines == {RasterCode(ps) : ps \in {NoVal, 0, 300, 900}}
                 \cup {RasterComment(c) : c \in {"Scan", "Cut", "ScanCut", "text"}}
RasterInputs == SeqsUpTo(RasterLines, RasterLen)

\* the feed of the inserted Z moves (the default of z_feed)
z_feed == 500

\* get_s_value: the S number of the code before ";"
get_s_value(line) == line.s

\* lines 61-62: the power is switched off / on by the line
needs_up(s_val) == s_val = 0
\* variant: every S word asks for a drop
needs_down_AnyS(s_val) == s_val # NoVal

needs_down(s_val) == s_val # NoVal /\ s_val > 0

\* zcmd: "G0 Z<value> F<z_feed>"
zcmd(value) == [kind |-> "z", idx |-> NoVal, z |-> value, s |-> NoVal, f |-> z_feed]

\* replace_feed: every F number becomes scan_feed, if one is given
replace_feed(f) == IF scan_feed = NoVal \/ f = NoVal THEN f ELSE scan_feed

\* the line as it is appended: with its S word, or without S0 / S900
RasterOut(i) ==
  LET line == raster_lines[i + 1]
  IN [kind |-> "line", idx |-> i, z |-> NoVal,
      s |-> IF keep_s \/ line.s \notin {0, 900} THEN line.s ELSE NoVal,
      f |-> replace_feed(line.f)]

RasterInit ==
  /\ raster_lines \in RasterInputs
  /\ z_up \in {5, 3}
  /\ z_down \in {0, 2}
  /\ keep_s \in BOOLEAN
  /\ scan_feed \in {NoVal, 3000}
  /\ in_scan_section = FALSE
  /\ is_raised = FALSE
  /\ out = <<>>
  /\ raster_index = 0
  /\ raster_pc = "loop"
  /\ OptimizerUnused
  /\ WebUnused

\* lines 49-78: one pass of the loop over the lines
RasterLine ==
  /\ raster_pc = "loop"
  /\ raster_index < Len(raster_lines)
  /\ LET line == raster_lines[raster_index + 1]
         starts == line.comment \in {"Scan", "ScanCut"}
         ends == line.comment \in {"Cut", "ScanCut"}
         scan1 == IF ends THEN FALSE ELSE IF starts THEN TRUE ELSE in_scan_section
         raised1 == IF starts \/ ends THEN FALSE ELSE is_raised
         s_val == get_s_value(line)
         lift == scan1 /\ needs_up(s_val) /\ ~raised1
         raised2 == IF lift THEN TRUE ELSE raised1
         drop == scan1 /\ needs_down(s_val) /\ raised2
         raised3 == IF drop THEN FALSE ELSE raised2
     IN /\ in_scan_section' = scan1
        /\ is_raised' = raised3
        /\ out' = out \o (IF lift THEN <<zcmd(z_up)>> ELSE <<>>)
                      \o (IF drop THEN <<zcmd(0 - z_up)>> ELSE <<>>)
                      \o <<RasterOut(raster_index)>>
  /\ raster_index' = raster_index + 1
  /\ UNCHANGED <<raster_lines, z_up, z_down, keep_s, scan_feed, raster_pc>>
  /\ UNCHANGED <<optimizer_vars, web_vars>>

\* line 80: the loop is over and out is returned
RasterReturn ==
  /\ raster_pc = "loop"
  /\ raster_index = Len(raster_lines)
  /\ raster_pc' = "returned"
  /\ UNCHANGED <<raster_lines, z_up, z_down, keep_s, scan_feed,
                 in_scan_section, is_raised, out, raster_index>>
  /\ UNCHANGED <<optimizer_vars, web_vars>>

RasterNext == RasterLine \/ RasterReturn

RasterSpec == RasterInit /\ [][RasterNext]_vars

----------------------------------------------------------------------------
(* The temporary directories of the endpoints of webapi/main.py            *)
(*                                                                         *)
(* requests[r] is what has happened to request r: its endpoint, the status *)
(* of its response and whether the handler has returned the response       *)
(* ("returned") and the server has sent it ("sent"). tmp_dirs holds the    *)
(* requests whose directory (tempfile.mkdtemp) exists, background_tasks    *)
(* the requests with a cleanup task to run after the response.             *)

\* requests the service gets
MaxRequests == 2
Requests == 1..MaxRequests

NoRequest == [endpoint |-> "", status |-> 0, pc |-> "none"]
Response(e, st) == [endpoint |-> e, status |-> st, pc |-> "returned"]

WebInit ==
  /\ requests = [r \in Requests |-> NoRequest]
  /\ tmp_dirs = {}
  /\ background_tasks = {}
  /\ OptimizerUnused
  /\ RasterUnused

\* POST /optimize: 400 for a name without .gcode; else the directory is
\* made, and either the optimizer runs, the cleanup is scheduled and the file
\* is the response, or an exception removes the directory (500)
optimize(r) ==
  /\ requests[r].pc = "none"
  /\ \E gcode_name \in BOOLEAN, raises \in BOOLEAN :
       IF ~gcode_name
       THEN /\ requests' = [requests EXCEPT ![r] = Response("/optimize", 400)]
            /\ UNCHANGED <<tmp_dirs, background_tasks>>
       ELSE IF raises
       THEN /\ requests' = [requests EXCEPT ![r] = Response("/optimize", 500)]
            /\ tmp_dirs' = (tmp_dirs \cup {r}) \ {r}
            /\ UNCHANGED background_tasks
       ELSE /\ requests' = [requests EXCEPT ![r] = Response("/optimize", 200)]
            /\ tmp_dirs' = tmp_dirs \cup {r}
            /\ background_tasks' = background_tasks \cup {r}
  /\ UNCHANGED <<optimizer_vars, raster_vars>>

\* POST /optimize_preview: as /optimize, but the output is read into the
\* page and the directory is removed before the handler returns
optimize_preview(r) ==
  /\ requests[r].pc = "none"
  /\ \E gcode_name \in BOOLEAN, raises \in BOOLEAN :
       IF ~gcode_name
       THEN /\ requests' = [requests EXCEPT ![r] = Response("/optimize_preview", 400)]
            /\ UNCHANGED <<tmp_dirs, background_tasks>>
       ELSE /\ requests' = [requests EXCEPT ![r] =
                               Response("/optimize_preview", IF raises THEN 500 ELSE 200)]
            /\ tmp_dirs' = (tmp_dirs \cup {r}) \ {r}
            /\ UNCHANGED background_tasks
  /\ UNCHANGED <<optimizer_vars, raster_vars>>

\* POST /raster: 400 for a name without .gcode; else the directory is made,
\* and either the file written in it is the response or an exception removes
\* the directory (500)
raster(r) ==
  /\ requests[r].pc = "none"
  /\ \E gcode_name \in BOOLEAN, raises \in BOOLEAN :
       IF ~gcode_name
       THEN /\ requests' = [requests EXCEPT ![r] = Response("/raster", 400)]
            /\ UNCHANGED <<tmp_dirs, background_tasks>>
       ELSE IF raises
       THEN /\ requests' = [requests EXCEPT ![r] = Response("/raster", 500)]
            /\ tmp_dirs' = (tmp_dirs \cup {r}) \ {r}
            /\ UNCHANGED background_tasks
       ELSE /\ requests' = [requests EXCEPT ![r] = Response("/raster", 200)]
            /\ tmp_dirs' = tmp_dirs \cup {r}
            /\ UNCHANGED background_tasks
  /\ UNCHANGED <<optimizer_vars, raster_vars>>

\* the server sends the response the handler returned
SendResponse(r) ==
  /\ requests[r].pc = "returned"
  /\ requests' = [requests EXCEPT ![r].pc = "sent"]
  /\ UNCHANGED <<tmp_dirs, background_tasks>>
  /\ UNCHANGED <<optimizer_vars, raster_vars>>

\* _cleanup: the background task of a sent response removes the directory
_cleanup(r) ==
  /\ requests[r].pc = "sent"
  /\ r \in background_tasks
  /\ tmp_dirs' = tmp_dirs \ {r}
  /\ background_tasks' = background_tasks \ {r}
  /\ UNCHANGED requests
  /\ UNCHANGED <<optimizer_vars, raster_vars>>

WebNext ==
  \E r \in Requests :
    optimize(r) \/ optimize_preview(r) \/ raster(r) \/ SendResponse(r) \/ _cleanup(r)

\* the server sends every response and then runs its background tasks
WebSpec ==
  /\ WebInit /\ [][WebNext]_vars
  /\ \A r \in Requests : WF_vars(SendResponse(r)) /\ WF_vars(_cleanup(r))

----------------------------------------------------------------------------
(* Properties *)

\* the last item of a non-empty sequence
Last(q) == q[Len(q)]
\* the step made a distance-triggered pickup (one entry more in the log)
PickupLogged == Len(pickup_segments') = Len(pickup_segments) + 1
\* the step confirmed a layer transition
LayerConfirmed == previous_layer' # previous_layer
\* the since-last-maintenance distance the step reached before any reset
Reached == accumulated_length + (total_length' - total_length)
\* the items the step appended to the output
Appended == SubSeq(output_lines', Len(output_lines) + 1, Len(output_lines'))
\* a lift at one of the offsets 1..n after line i
LiftWithin(i, n) == \E d \in 1..n : i + d < Len(lines) /\ IsZLift(LineAt(i + d))
\* the first layer name at the offsets 1..n after line i, PyNone if none
FirstLayerWithin(i, n) ==
  LET at == {d \in 1..n : i + d < Len(lines) /\ LineAt(i + d).note = "Layer"}
  IN IF at = {} THEN PyNone
     ELSE LineAt(i + (CHOOSE d \in at : \A e \in at : d <= e)).arg
\* the line under the cursor is a section marker / a bare layer marker
AtSectionMarker == pc = "scan" /\ line_index < Len(lines) /\ LineAt(line_index).cmd = "M8"
AtBareMarker ==
  /\ pc = "scan" /\ line_index < Len(lines)
  /\ LineAt(line_index).cmd # "M8" /\ LineAt(line_index).note = "Layer"
  /\ ~found_m8

\* C1 (as stated): after any processed line, for every configuration, the
\* since-last-maintenance distance is strictly below 3 x distance_threshold
C1_AnyThreshold ==
  line_index > 0 => accumulated_length < 3 * distance_threshold

\* C1 (amended): for every positive distance_threshold the
\* since-last-maintenance distance is strictly below 3 x distance_threshold
\* in every state of the scan, so a motion that brings it to 3 x
\* distance_threshold or more gets its pickup on that same line, deferred or not
C1_EmergencyBound ==
  distance_threshold > 0 => accumulated_length < 3 * distance_threshold

\* an emergency pickup was just made in normal mode on a line that is neither
\* a lift nor an end of stroke, while a lift was near enough to defer a
\* forced pickup
C1_EmergencyOverDeferral ==
  /\ pc = "scan" /\ line_index > 0 /\ ~aggressive /\ distance_threshold > 0
  /\ pickup_segments # <<>>
  /\ Last(pickup_segments).length >= 3 * distance_threshold
  /\ accumulated_length = 0
  /\ Last(output_lines).kind # "line"
  /\ LineAt(line_index - 1).cmd = "G1"
  /\ ~IsZLift(LineAt(line_index - 1))
  /\ ~GoodTransition(line_index - 1)
  /\ LiftWithin(line_index - 1, 9)

\* C2: the since-last-maintenance distance is 0 right after every pickup and
\* every confirmed layer transition, and no other processed line lowers it
C2_ResetOnlyAtMaintenance ==
  [][pc' = "scan" =>
       IF PickupLogged \/ LayerConfirmed
       THEN accumulated_length' = 0
       ELSE accumulated_length' >= accumulated_length]_vars

C4_DeferWithinTen ==
  [][(/\ pc = "scan" /\ pc' = "scan" /\ ~aggressive
      /\ line_index < Len(lines)
      /\ total_length' > total_length
      /\ Reached > distance_threshold
      /\ Reached >= force_multiplier * distance_threshold
      /\ Reached < 3 * distance_threshold
      /\ ~IsZLift(LineAt(line_index))
      /\ ~GoodTransition(line_index))
     => (PickupLogged <=> ~LiftWithin(line_index, 10))]_vars

\* C5: a distance-triggered pickup is followed directly by the return block
\* (to the position just parsed) exactly if the drawing flag is set, the next
\* line is a G1 with X or Y, the current line is not a lift and the next line
\* is not a G0; a step without such a pickup appends no return block
C5_RecoveryIff ==
  [][pc = "scan" =>
       LET i == line_index
           needed == /\ is_drawing'
                     /\ i + 1 < Len(lines)
                     /\ LineAt(i + 1).cmd = "G1" /\ LineAt(i + 1).x # NoVal
                     /\ ~(LineAt(i).cmd = "G0" /\ LineAt(i).z \in 1..9)
                     /\ LineAt(i).note # "G0 Z5"
                     /\ LineAt(i + 1).cmd # "G0" /\ LineAt(i + 1).note # "G0 Z5"
       IN IF PickupLogged
          THEN /\ Appended # <<>>
               /\ (Last(Appended).kind = "return" <=> needed)
               /\ needed => /\ Len(Appended) >= 3
                            /\ Appended[Len(Appended) - 1].kind = "block"
                            /\ Last(Appended).x = current_x'
                            /\ Last(Appended).y = current_y'
               /\ ~needed => Last(Appended).kind = "block"
               /\ \A k \in 1..(Len(Appended) - 1) : Appended[k].kind # "return"
          ELSE \A k \in 1..Len(Appended) : Appended[k].kind # "return"]_vars

\* a pickup with the return block was just made
C5_Recovered ==
  /\ pc = "scan" /\ pickup_segments # <<>>
  /\ Last(output_lines).kind = "return"

\* C6: at a confirmed layer transition the wash template is emitted before the
\* pickup exactly if a color was active before (a pickup was made earlier) and
\* its name differs from the new color's name
C6_WashIffColorChange ==
  [][(pc = "scan" /\ pc' = "scan" /\ LayerConfirmed)
     => LET wash == \E k \in 1..(Len(Appended) - 1) :
                       /\ Appended[k] = Block("WASHING_SEQUENCE")
                       /\ Appended[k + 1] = Block(current_color_sequence')
        IN wash <=> (last_color_name # PyNone /\ last_color_name # current_color_name')]_vars

\* C7: the first bare layer marker of a run (no section marker seen, no layer
\* set) is honored: distance reset, color resolved, pickup emitted, layer
\* recorded, and the scan goes on
C7_FirstBareMarkerHonored ==
  [][(AtBareMarker /\ previous_layer = PyNone)
     => LET n == LineAt(line_index).arg
        IN /\ pc' = "scan"
           /\ current_layer' = n
           /\ previous_layer' = n
           /\ accumulated_length' = 0
           /\ current_color_name' = ResolveColor(n).name
           /\ Len(Appended) >= 2
           /\ Appended[Len(Appended) - 1] = Block(ResolveColor(n).sequence)
           /\ Last(Appended) = OutLine(line_index)]_vars

\* C8: once a layer has been set a bare layer marker is ignored: active layer,
\* active color, since-last-maintenance distance are unchanged and the marker
\* line is the only output
C8_LaterBareMarkerIgnored ==
  [][(AtBareMarker /\ previous_layer # PyNone)
     => /\ current_layer' = current_layer
        /\ previous_layer' = previous_layer
        /\ current_color_name' = current_color_name
        /\ current_color_sequence' = current_color_sequence
        /\ last_color_name' = last_color_name
        /\ accumulated_length' = accumulated_length
        /\ Appended = <<OutLine(line_index)>>]_vars

\* C9: a section marker followed at one of the next 6 lines by a layer marker
\* naming another layer than the active one makes the transition at the
\* section marker (pickup right after the M8 line); with no layer marker in
\* those 6 lines it makes none
C9_SectionMarkerPath ==
  [][AtSectionMarker
     => LET n == FirstLayerWithin(line_index, 6)
        IN IF n # PyNone /\ n # previous_layer
           THEN /\ current_layer' = n
                /\ previous_layer' = n
                /\ accumulated_length' = 0
                /\ Appended[1] = OutLine(line_index)
                /\ Len(Appended) \in {2, 3}
                /\ Last(Appended) = Block(ResolveColor(n).sequence)
                /\ line_index' = line_index + 1
           ELSE /\ previous_layer' = previous_layer
                /\ accumulated_length' = accumulated_length
                /\ Appended = <<OutLine(line_index)>>
                /\ line_index' = line_index + 1]_vars

\* C10: a transition to a layer without an entry in the color table makes
\* that layer the active one with the default (wash) profile, on the section
\* marker path and on the bare marker path, and later distance-triggered
\* pickups of that layer use the default profile
C10_UnmappedLayerDefault ==
  [][/\ (AtSectionMarker
         /\ FirstLayerWithin(line_index, 6) \notin (DOMAIN LAYER_COLOR_MAP) \cup {PyNone}
         /\ FirstLayerWithin(line_index, 6) # previous_layer)
        => /\ current_layer' = FirstLayerWithin(line_index, 6)
           /\ previous_layer' = current_layer'
           /\ current_color_name' = "Washing"
           /\ Last(Appended) = Block("WASHING_SEQUENCE")
     /\ (AtBareMarker /\ previous_layer = PyNone
         /\ LineAt(line_index).arg \notin DOMAIN LAYER_COLOR_MAP)
        => /\ pc' = "scan"
           /\ current_layer' = LineAt(line_index).arg
           /\ previous_layer' = current_layer'
           /\ current_color_name' = "Washing"
     /\ (PickupLogged /\ current_layer' \notin DOMAIN LAYER_COLOR_MAP)
        => Last(pickup_segments').color = "Washing"]_vars

\* the maintenance blocks (wash and pickup templates) the step appended
IsMaintenance(it) == it.kind = "block" /\ it.text \notin {"HOMING_SEQUENCE", "ENDING_SEQUENCE"}
MaintenanceAppended == SelectSeq(Appended, IsMaintenance)
\* a line before the cursor carried a coordinate pair
ParsedBefore ==
  \E j \in 0..(line_index - 1) : LineAt(j).cmd \in {"G0", "G1"} /\ LineAt(j).x # NoVal /\ LineAt(j).y # NoVal
\* the line under the cursor is a G0 / G1 line with an X and a Y token
AtMotionXY ==
  /\ pc = "scan" /\ line_index < Len(lines)
  /\ LineAt(line_index).cmd \in {"G0", "G1"}
  /\ LineAt(line_index).x # NoVal /\ LineAt(line_index).y # NoVal

\* C11: a motion line whose X or Y token is malformed is not fatal: the line
\* goes to the output, no counter grows, the parsed position is kept and the
\* scan goes on with the next line
C11_MalformedTokenSkipped ==
  [][(AtMotionXY /\ (LineAt(line_index).x = Malformed \/ LineAt(line_index).y = Malformed))
     => /\ pc' = "scan"
        /\ line_index' = line_index + 1
        /\ Appended = <<OutLine(line_index)>>
        /\ total_length' = total_length
        /\ accumulated_length' = accumulated_length
        /\ layer_lengths' = layer_lengths
        /\ path_lengths' = path_lengths
        /\ current_x' = current_x
        /\ current_y' = current_y]_vars

\* C12: every run on a readable input completes, and the written output is
\* the homing sequence once, as the first block, then the body, then the
\* ending sequence once, as the last block
C12_CompleteOutput ==
  /\ pc # "error"
  /\ pc = "done"
       => /\ result.kind = "return"
          /\ output_file.written
          /\ Len(output_file.content) >= 2
          /\ output_file.content[1] = Block("HOMING_SEQUENCE")
          /\ Last(output_file.content) = Block("ENDING_SEQUENCE")
          /\ \A k \in 2..(Len(output_file.content) - 1) :
               output_file.content[k] \notin {Block("HOMING_SEQUENCE"), Block("ENDING_SEQUENCE")}

\* C13: when the input cannot be read nothing is written and the caller gets
\* an error, not a returned result
C13_ReadFailureRaises ==
  pc = "failed" => /\ ~output_file.written
                   /\ result.kind = "raise"

C15_TwoLayerScenario ==
  (/\ pc = "done" /\ lines \in TwoLayerInputs /\ ~aggressive
   /\ distance_threshold = 2 /\ force_multiplier = 2)
  => /\ color_pickup_count["Color 1"] = 2
     /\ color_pickup_count["Color 2"] = 2
     /\ \E k \in 1..(Len(output_file.content) - 1) :
          /\ output_file.content[k] = Block("WASHING_SEQUENCE")
          /\ output_file.content[k + 1] = Block("COLOR2_SEQUENCE")
     /\ Len(pickup_segments) = 2
     /\ pickup_segments[1].layer = "Green"
     /\ pickup_segments[2].layer = "Blue"
     /\ \A k \in 1..2 : pickup_segments[k].length < 3 * distance_threshold

C17_AccumulateIff ==
  [][(pc = "scan" /\ pc' = "scan" /\ line_index < Len(lines))
     => LET l == LineAt(line_index)
            d == IF AtMotionXY /\ is_drawing' /\ ParsedBefore
                 THEN SegmentLength(current_x, current_y, l.x, l.y)
                 ELSE 0
        IN /\ total_length' = total_length + d
           /\ DictGet(layer_lengths', current_layer', 0)
                = DictGet(layer_lengths, current_layer', 0) + d
           /\ DictGet(path_lengths', current_path', 0)
                = DictGet(path_lengths, current_path', 0) + d
           /\ \/ accumulated_length' = accumulated_length + d
              \/ PickupLogged
              \/ LayerConfirmed]_vars

C19_ForceOnlyAtMultiple ==
  [][(/\ pc = "scan" /\ ~aggressive /\ PickupLogged
      /\ ~IsZLift(LineAt(line_index))
      /\ ~GoodTransition(line_index))
     => Reached >= force_multiplier * distance_threshold]_vars

IsLineItem(it) == it.kind = "line"
BodyOf(items) == SelectSeq(items, IsLineItem)
\* output item it is a draw move (G1 with X/Y at contact height)
IsDrawItem(it) ==
  /\ it.kind = "line" /\ it.text = "same"
  /\ lines[it.idx + 1].cmd = "G1" /\ lines[it.idx + 1].x # NoVal /\ lines[it.idx + 1].z = 0
\* output item it moves the tool back over the drawing: the return block or
\* a G0 with X/Y
IsRepositionItem(it) ==
  \/ it.kind = "return"
  \/ /\ it.kind = "line"
     /\ \/ it.text = "G0 X Y F1200"
        \/ lines[it.idx + 1].cmd = "G0" /\ lines[it.idx + 1].x # NoVal
\* output_lines[k] ends a distance-triggered insertion: a maintenance block
\* that follows (after a wash block at most) the line of a motion command
EndsPickup(k) ==
  /\ k > 1 /\ IsMaintenance(output_lines[k])
  /\ (k = Len(output_lines) \/ ~IsMaintenance(output_lines[k + 1]))
  /\ \E h \in 1..(k - 1) :
       /\ output_lines[h].kind = "line"
       /\ lines[output_lines[h].idx + 1].cmd \in {"G0", "G1"}
       /\ \A m \in (h + 1)..k : IsMaintenance(output_lines[m])

C22_PathReset ==
  /\ []((pc = "scan" /\ \A j \in 0..(line_index - 1) : LineAt(j).note # "Path")
          => current_path = "None")
  /\ [][(pc = "scan" /\ pc' = "scan" /\ line_index < Len(lines))
        => LET l == LineAt(line_index)
               d == total_length' - total_length
           IN IF l.cmd # "M8" /\ l.note = "Path"
              THEN /\ current_path' = l.arg
                   /\ l.arg \in DOMAIN path_lengths'
                   /\ path_lengths'[l.arg] = 0
                   /\ \A k \in (DOMAIN path_lengths) \ {l.arg} :
                        k \in DOMAIN path_lengths' /\ path_lengths'[k] = path_lengths[k]
              ELSE /\ current_path' = current_path
                   /\ DOMAIN path_lengths \subseteq DOMAIN path_lengths'
                   /\ \A k \in DOMAIN path_lengths' :
                        path_lengths'[k] = DictGet(path_lengths, k, 0)
                                             + (IF k = current_path THEN d ELSE 0)]_vars

\* the marker of path 1 has just been read a second time, after distance was
\* drawn on path 1: its length is 0 again
C22_UsedPathReset ==
  /\ pc = "scan" /\ line_index > 1
  /\ LineAt(line_index - 1) = PathLine("1")
  /\ \E j \in 0..(line_index - 2) : LineAt(j) = PathLine("1")
  /\ current_path = "1"
  /\ total_length > 0
  /\ \A k \in DOMAIN path_lengths : path_lengths[k] = 0

\* C23: the output file is unwritten in every state of the scan and after an
\* abort; it is written once, when the whole input has been scanned, with all
\* of the assembled output
C23_SingleWrite ==
  /\ [](output_file.written
          => /\ pc = "done"
             /\ line_index = Len(lines)
             /\ output_file.content = output_lines
             /\ Last(output_file.content) = Block("ENDING_SEQUENCE"))
  /\ [](~output_file.written => output_file.content = <<>>)
  /\ [][(output_file' # output_file /\ pc \in {"read", "scan"})
          => (~output_file.written /\ pc' = "done")]_vars

\* the scan was aborted by an error after lines had been assembled in
\* memory: nothing was written
C23_AbortedUnwritten ==
  /\ pc = "error" /\ result.kind = "raise"
  /\ Len(output_lines) > 2
  /\ ~output_file.written /\ output_file.content = <<>>

\* C24: without the homing sequence, the ending sequence and the injected
\* blocks the output is the input, line by line and in order, each line as it
\* is or with its fixed replacement
C24_LinesKept ==
  /\ pc = "scan" => BodyOf(output_lines) = [k \in 1..line_index |-> OutLine(k - 1)]
  /\ pc = "done" => /\ BodyOf(output_file.content) = [k \in 1..Len(lines) |-> OutLine(k - 1)]
                    /\ \A k \in 1..Len(lines) :
                         BodyOf(output_file.content)[k].text = Format(lines[k])

\* a run has finished whose output holds a reformatted line, a pickup block
\* and a return block
C24_MixedOutput ==
  /\ pc = "done" /\ Len(lines) > 3
  /\ \E k \in 1..Len(output_file.content) : output_file.content[k].kind = "return"
  /\ \E k \in 1..Len(output_file.content) :
       output_file.content[k].kind = "line" /\ output_file.content[k].text = "G0 X Y F1200"
  /\ \E k \in 1..Len(output_file.content) : IsMaintenance(output_file.content[k])

\* C25: the lookaheads only read: every step of the scan moves the cursor by
\* exactly one line, a step that makes no pickup and no layer transition adds
\* the line alone to the output and changes no pickup counter, and the scan is
\* over when the cursor is at len(lines)
C25_LookAheadReadOnly ==
  /\ [](pc = "done" => line_index = Len(lines))
  /\ [][(pc = "scan" /\ pc' = "scan")
        => /\ line_index' = line_index + 1
           /\ lines' = lines
           /\ (~PickupLogged /\ ~LayerConfirmed)
                => /\ Appended = <<OutLine(line_index)>>
                   /\ color_pickup_count' = color_pickup_count
                   /\ pickup_segments' = pickup_segments
                   /\ last_color_name' = last_color_name]_vars

\* a section marker has just made the transition to a layer whose marker is
\* two or more lines ahead: the cursor is on the line after the section marker
C25_PeekedAhead ==
  /\ pc = "scan" /\ line_index > 0 /\ line_index < Len(lines)
  /\ LineAt(line_index - 1).cmd = "M8"
  /\ LineAt(line_index).note # "Layer"
  /\ previous_layer # PyNone
  /\ previous_layer = FirstLayerWithin(line_index - 1, 6)
  /\ Last(output_lines).kind = "block"

\* C29: a distance-triggered pickup emits the wash template before the color
\* template exactly if a color was used before and differs from the color of
\* the active layer; the color template is emitted and counted, one entry is
\* logged, and the last used color is then the active layer's color (so the
\* next pickup in the same layer has no wash)
C29_PickupWashIff ==
  [][PickupLogged
     => LET c == ResolveColor(current_layer')
            wash == last_color_name # PyNone /\ last_color_name # c.name
        IN /\ MaintenanceAppended = (IF wash THEN <<Block("WASHING_SEQUENCE")>> ELSE <<>>)
                                      \o <<Block(c.sequence)>>
           /\ color_pickup_count' =
                CountUp(IF wash THEN CountUp(color_pickup_count, "Washing")
                        ELSE color_pickup_count, c.name)
           /\ Last(pickup_segments').color = c.name
           /\ last_color_name' = c.name
           /\ current_color_name' = c.name]_vars

\* the second of two pickups of one color has just been made, with no wash
C29_SecondPickupNoWash ==
  /\ pc = "scan" /\ Len(pickup_segments) >= 2
  /\ accumulated_length = 0
  /\ pickup_segments[Len(pickup_segments)].color = "Color 1"
  /\ pickup_segments[Len(pickup_segments) - 1].color = "Color 1"
  /\ color_pickup_count["Color 1"] = 3
  /\ \E k \in 2..Len(output_lines) :
       /\ output_lines[k] = Block("COLOR1_SEQUENCE")
       /\ output_lines[k - 1] = OutLine(line_index - 1)

\* C30: in the output, the first draw move after a distance-triggered
\* insertion has a reposition (the return block or a G0 with X/Y) between the
\* inserted block and itself
C30_StrokeContinuity ==
  \A k \in 1..Len(output_lines) :
    EndsPickup(k)
      => \A j \in (k + 1)..Len(output_lines) :
           (/\ IsDrawItem(output_lines[j])
            /\ \A m \in (k + 1)..(j - 1) : ~IsDrawItem(output_lines[m]))
             => \E m \in (k + 1)..(j - 1) : IsRepositionItem(output_lines[m])

\* C26: a run of optimize_gcode on the output of a finished run ends with a
\* written output that differs from its input: it has at least the lines of a
\* second homing sequence and a second ending sequence more
C26_NotIdempotent ==
  (run = 2 /\ pc \in {"done", "error"})
    => /\ output_file.written
       /\ FileLines(output_file.content) # lines
       /\ Len(FileLines(output_file.content))
            >= Len(lines) + Len(HOMING_SEQUENCE) + Len(ENDING_SEQUENCE)

\* C27: in the output of process_gcode, the Z move inserted before a line
\* that switches the power on (S > 0) goes to z_down and the Z move inserted
\* before a line that switches it off (S = 0) goes to z_up
C27_ZHeights ==
  \A k \in 1..(Len(out) - 1) :
    (out[k].kind = "z" /\ out[k + 1].kind = "line")
      => LET line == raster_lines[out[k + 1].idx + 1]
         IN /\ line.s > 0 => out[k].z = z_down
            /\ line.s = 0 => out[k].z = z_up

\* C28: for every request to /optimize, /optimize_preview or /raster, once
\* the response has been sent the temporary directory of the request is
\* eventually gone
C28_EventuallyRemoved ==
  \A r \in Requests : (requests[r].pc = "sent") ~> (r \notin tmp_dirs)

\* the scan is at a layer marker that is no section marker's: the
\* section-seen flag is set, but no section marker is in the look_ahead_limit
\* lines before it
AtLateMarker ==
  /\ pc = "scan" /\ line_index < Len(lines)
  /\ LineAt(line_index).cmd # "M8" /\ LineAt(line_index).note = "Layer"
  /\ found_m8
  /\ \A j \in 0..(line_index - 1) :
       j + look_ahead_limit >= line_index => LineAt(j).cmd # "M8"

\* C31: a layer marker that the scan reaches with the section-seen flag set,
\* outside the lookahead window of the section marker, is honored: when the
\* line has been processed its layer is the active layer
C31_LateMarkerHonored ==
  [][(AtLateMarker /\ pc' = "scan") => current_layer' = LineAt(line_index).arg]_vars

\* the sum of the values of a dict of lengths
RECURSIVE SumOver(_, _)
SumOver(d, keys) ==
  IF keys = {} THEN 0
  ELSE LET k == CHOOSE q \in keys : TRUE
       IN d[k] + SumOver(d, keys \ {k})
SumOf(d) == SumOver(d, DOMAIN d)

\* C32: at every point of the scan the total drawn length is the sum of the
\* lengths of the layers, the distance since the last maintenance is at most
\* the total, and the lengths of the paths sum to at most the total
C32_LengthBooks ==
  pc \in {"scan", "done"}
    => /\ total_length = SumOf(layer_lengths)
       /\ accumulated_length <= total_length
       /\ SumOf(path_lengths) <= total_length

\* lengths are booked in two layers, a path marker has reset a used path and
\* a layer transition has reset the distance since the last maintenance
C32_TwoLayersBooked ==
  /\ pc = "scan"
  /\ Cardinality(DOMAIN layer_lengths) >= 2
  /\ \A k \in DOMAIN layer_lengths : layer_lengths[k] > 0
  /\ SumOf(path_lengths) < total_length
  /\ SumOf(path_lengths) > 0
  /\ accumulated_length > 0
  /\ accumulated_length < total_length

\* the template of a color name
TemplateOf(name) ==
  CASE name = "Color 1" -> "COLOR1_SEQUENCE"
    [] name = "Color 2" -> "COLOR2_SEQUENCE"
    [] name = "Color 3" -> "COLOR3_SEQUENCE"
    [] name = "Washing" -> "WASHING_SEQUENCE"
\* how often template t has been appended to the output
TimesAppended(t) == Cardinality({k \in 1..Len(output_lines) : output_lines[k] = Block(t)})

\* C33: at every point of the scan the counter of each color name is the
\* number of times the template of that color has been appended, the counter
\* "Washing" is the number of wash templates appended, and the event log has
\* one entry per distance-triggered insertion and none for a pickup made at a
\* layer transition
C33_CountersMatchOutput ==
  pc \in {"scan", "done"}
    => /\ \A name \in {"Color 1", "Color 2", "Color 3", "Washing"} :
            color_pickup_count[name] = TimesAppended(TemplateOf(name))
       /\ Len(pickup_segments)
            = Cardinality({k \in 1..Len(output_lines) : EndsPickup(k)})

\* a layer transition with a wash and a distance-triggered pickup in the new
\* layer have been made: two templates of the color, one wash, one log entry
C33_TransitionAndPickup ==
  /\ pc = "scan" /\ run = 1
  /\ color_pickup_count["Washing"] = 1
  /\ color_pickup_count["Color 2"] = 2
  /\ Len(pickup_segments) = 1
  /\ TimesAppended("COLOR2_SEQUENCE") = 2

\* the Z moves process_gcode has inserted, in order
IsZMove(it) == it.kind = "z"
IsLift(it) == it.kind = "z" /\ it.z > 0
IsDrop(it) == it.kind = "z" /\ it.z < 0
ZMoves == SelectSeq(out, IsZMove)

\* C34: in the output of process_gcode a lift is never followed by another
\* lift without a drop in between, and whenever the loop is outside a Scan
\* section every lift emitted so far has been matched by a drop
C34_LiftsBalanced ==
  /\ \A k \in 1..(Len(ZMoves) - 1) : IsLift(ZMoves[k]) => IsDrop(ZMoves[k + 1])
  /\ ~in_scan_section => Len(SelectSeq(out, IsLift)) = Len(SelectSeq(out, IsDrop))

\* what one pass of the loop of process_gcode has appended to out
RasterAppended == SubSeq(out', Len(out) + 1, Len(out'))
IsRasterLine(it) == it.kind = "line"

\* C35: process_gcode inserts a Z move only inside a Scan section and only
\* before a line that switches the power: a lift before a line with S = 0
\* when not raised, a drop before a line with S > 0 when raised; everywhere
\* else it inserts nothing, and every input line is emitted once, in input
\* order, after the Z move inserted for it
C35_OnlyAtPowerSwitch ==
  /\ [](/\ SelectSeq(out, IsRasterLine) = [k \in 1..raster_index |-> RasterOut(k - 1)]
        /\ raster_pc = "returned" => raster_index = Len(raster_lines))
  /\ [][(raster_pc = "loop" /\ raster_index < Len(raster_lines))
        => LET line == raster_lines[raster_index + 1]
               inserted == SelectSeq(RasterAppended, IsZMove)
           IN /\ Last(RasterAppended) = RasterOut(raster_index)
              /\ Len(inserted) <= 1
              /\ Len(RasterAppended) = Len(inserted) + 1
              /\ (\E k \in 1..Len(inserted) : IsLift(inserted[k]))
                   <=> (in_scan_section /\ line.s = 0 /\ ~is_raised)
              /\ (\E k \in 1..Len(inserted) : IsDrop(inserted[k]))
                   <=> (in_scan_section /\ line.s > 0 /\ is_raised)
              /\ (~in_scan_section' \/ line.s = NoVal) => inserted = <<>>]_vars

\* process_gcode has returned the output of a three-line input that ends
\* with a lift, its line, a drop and its line
C35_LiftDropAndPlain ==
  /\ raster_pc = "returned"
  /\ Len(raster_lines) = 3
  /\ Len(out) = 5
  /\ IsLift(out[Len(out) - 3]) /\ out[Len(out) - 2].kind = "line"
  /\ IsDrop(out[Len(out) - 1]) /\ out[Len(out)].kind = "line"

====
